---- MODULE Spec2Model ----
(***************************************************************************)
(* State-machine model of the anchoring-ai back end: the application API   *)
(* (back-end/src/api/app_api_v1.py) and the file API                       *)
(* (back-end/src/api/file_api_v1.py).                                      *)
(*                                                                         *)
(* Representation.                                                         *)
(*   - Python None is the empty tuple <<>>; a nullable column or an        *)
(*     optional argument holding v is <<v>>.                               *)
(*   - Strings that the code matches with LIKE, split(",") or rsplit(".")  *)
(*     are sequences of one-character strings, so that the matching is     *)
(*     computed and not assumed.                                           *)
(*   - gen_uuid() is the next unused row number; the id of a row is its    *)
(*     position in the table. The empty id "" of a request is EmptyId.     *)
(*   - datetime.utcnow() reads the clock `now`, which Tick advances; two   *)
(*     requests served without a Tick in between read the same time.       *)
(*   - resp is the response of the request served by the last step         *)
(*     (NoResponse when the last step served none), with the route, the    *)
(*     caller and the id of the row it is about.                           *)
(*   - A file's bytes are described by what the upload handler reads from  *)
(*     them: their length, whether the first line holds a tab or a comma,  *)
(*     the number of data rows the table parser finds, and whether they    *)
(*     decode and parse at all. DbFile.name is not modelled.               *)
(*   - A handler is one step, except delete_file of an Embedded Text file, *)
(*     which waits for requests.delete between reading the row and writing *)
(*     deleted_at: it is the step delete_file up to the request sent and   *)
(*     the step delete_file_resume from its return on. waiting is the bag  *)
(*     of <<caller, file id>> of the deletes that wait.                    *)
(*   - An unhandled Python exception is the framework's status 500; the    *)
(*     session is not committed.                                           *)
(***************************************************************************)
EXTENDS Integers, Sequences, FiniteSets, Bags, TLC

VARIABLES apps, files, now, resp, waiting

vars == <<apps, files, now, resp, waiting>>

(* ------------------------------ bounds -------------------------------- *)

\* rows in the database (applications and files together)
MaxRecords == 2

\* the last reading of the clock
MaxTime == 1

\* the largest page number and page size a list request asks for
MaxPage == 2

\* delete requests waiting for the downstream deletion at one time
MaxInflight == 2

(* ----------------------------- constants ------------------------------ *)

None == <<>>

Some(x) == <<x>>

EmptyId == 0

Alice == <<"a", "l">>

Bob == <<"b", "o">>

Users == {Alice, Bob}

NoResponse == [op |-> "none"]

(* ------------------------------ strings ------------------------------- *)

\* x in s, for a one-character x
Contains(s, x) == \E i \in 1..Len(s) : s[i] = x

\* SQL: s LIKE p, with % any run of characters and _ any one character
RECURSIVE Like(_, _)
Like(s, p) ==
    IF p = <<>> THEN s = <<>>
    ELSE IF Head(p) = "%"
         THEN Like(s, Tail(p)) \/ (s /= <<>> /\ Like(Tail(s), p))
    ELSE IF s = <<>> THEN FALSE
    ELSE (Head(p) = "_" \/ Head(p) = Head(s)) /\ Like(Tail(s), Tail(p))

\* f'%{x}%'
Wrapped(x) == <<"%">> \o x \o <<"%">>

\* s.split(",")
RECURSIVE Split(_)
Split(s) ==
    IF ~Contains(s, ",") THEN <<s>>
    ELSE LET i == CHOOSE k \in 1..Len(s) :
                      s[k] = "," /\ \A j \in 1..(k - 1) : s[j] /= ","
         IN  <<SubSeq(s, 1, i - 1)>> \o Split(SubSeq(s, i + 1, Len(s)))

Range(q) == {q[i] : i \in 1..Len(q)}

\* math.ceil(n / size) for n >= 0, size >= 1
Ceil(n, size) == IF n % size = 0 THEN n \div size ELSE (n \div size) + 1

(* ---------------------------- applications ---------------------------- *)

\* dict.get(key, default) of a JSON body
Get(data, key, default) == IF key \in DOMAIN data THEN Some(data[key]) ELSE default

\* data.get('published', False)
GetPublished(data) == IF "published" \in DOMAIN data THEN data.published ELSE FALSE

\* DbAppBuild(app_id, app_name, created_by, tags, description, published, chain),
\* with the column defaults of the table: updated_at the time of the insert,
\* deleted_at NULL
DbAppBuild(app_name, created_by, tags, description, published, chain) ==
    [app_name |-> app_name, created_by |-> created_by, tags |-> tags,
     description |-> description, published |-> published, chain |-> chain,
     updated_at |-> now, deleted_at |-> None]

AppIds == 1..Len(apps)

\* the database has room for one more row (the bound of the model)
Room == Len(apps) + Len(files) < MaxRecords

\* variant of OwnLiveApp: the query without its created_by condition
OwnLiveAppAnyUser(u, app_id) ==
    /\ app_id \in AppIds
    /\ apps[app_id].deleted_at = None

\* DbAppBuild.query.filter(id == app_id, deleted_at IS NULL, created_by == u).first()
OwnLiveApp(u, app_id) ==
    /\ app_id \in AppIds
    /\ apps[app_id].deleted_at = None
    /\ apps[app_id].created_by = u

\* variant of AppVisible: the filter without its published alternative
AppVisibleOwnerOnly(u, app_id) ==
    /\ app_id \in AppIds
    /\ apps[app_id].deleted_at = None
    /\ apps[app_id].created_by = u

\* filter(deleted_at IS NULL, (created_by == u) | (published IS TRUE))
AppVisible(u, app_id) ==
    /\ app_id \in AppIds
    /\ apps[app_id].deleted_at = None
    /\ (apps[app_id].created_by = u \/ apps[app_id].published)

\* the optional filters of get_app_list: app_name, created_by, tags
AppMatches(flt, app_id) ==
    /\ flt.app_name /= None =>
           Like(apps[app_id].app_name, Wrapped(flt.app_name[1]))
    /\ flt.created_by /= None =>
           Like(apps[app_id].created_by, Wrapped(flt.created_by[1]))
    /\ flt.tags /= None =>
           /\ apps[app_id].tags /= None
           /\ apps[app_id].tags[1] \in Range(Split(flt.tags[1]))

AppQuery(u, flt) == {a \in AppIds : AppVisible(u, a) /\ AppMatches(flt, a)}

\* case((created_by == u, 1), else_=2)
OwnerRank(u, app_id) == IF apps[app_id].created_by = u THEN 1 ELSE 2

\* order_by(case(...), desc(updated_at)): a comes before b, or ties with it
AppOrderLeq(u, a, b) ==
    \/ OwnerRank(u, a) < OwnerRank(u, b)
    \/ /\ OwnerRank(u, a) = OwnerRank(u, b)
       /\ apps[a].updated_at >= apps[b].updated_at

\* The rows of a query result S in every sequence: each row once.
Sequencings(S) ==
    {q \in [1..Cardinality(S) -> S] :
        \A i, j \in 1..Cardinality(S) : i /= j => q[i] /= q[j]}

\* the ordered query of get_app_list: every row order its ORDER BY allows,
\* rows with equal keys in any order
AppOrderings(u, flt) ==
    {q \in Sequencings(AppQuery(u, flt)) :
        \A i, j \in 1..Len(q) : i < j => AppOrderLeq(u, q[i], q[j])}

\* query.offset((page - 1) * size).limit(size).all()
Window(q, page, size) ==
    LET lo == (page - 1) * size + 1
        hi == IF page * size < Len(q) THEN page * size ELSE Len(q)
    IN  SubSeq(q, lo, hi)

\* ceil(query.count() / size)
AppTotalPages(u, size, flt) == Ceil(Cardinality(AppQuery(u, flt)), size)

NoFilter == [app_name |-> None, created_by |-> None, tags |-> None]

\* GET /v1/app/list
get_app_list(u, page, size, flt) ==
    /\ \E q \in AppOrderings(u, flt) :
           resp' = [op |-> "app_list", user |-> u, status |-> 200,
                    body |-> Window(q, page, size),
                    total_pages |-> AppTotalPages(u, size, flt)]
    /\ UNCHANGED <<apps, files, now, waiting>>

\* the status of GET /v1/app/load/<app_id>
LoadAppStatus(u, app_id) == IF AppVisible(u, app_id) THEN 200 ELSE 400

\* GET /v1/app/load/<app_id>; the body is the row found
get_application(u, app_id) ==
    /\ resp' = [op |-> "app_load", user |-> u, id |-> app_id,
                status |-> LoadAppStatus(u, app_id),
                body |-> IF AppVisible(u, app_id) THEN Some(apps[app_id]) ELSE None]
    /\ UNCHANGED <<apps, files, now, waiting>>

\* variant of UpdatedApp: published written only when the request has it
UpdatedAppKeepPublished(row, data) ==
    LET app_name == Get(data, "app_name", None)
        tags == Get(data, "tags", None)
        description == Get(data, "description", None)
        chain == Get(data, "chain", None)
    IN  [row EXCEPT
            !.updated_at = now,
            !.published = IF "published" \in DOMAIN data THEN data.published ELSE @,
            !.app_name = IF app_name /= None THEN app_name[1] ELSE @,
            !.tags = IF tags /= None THEN tags ELSE @,
            !.description = IF description /= None THEN description ELSE @,
            !.chain = IF chain /= None THEN chain ELSE @]

\* the update branch of modify_application on the row found
UpdatedApp(row, data) ==
    LET app_name == Get(data, "app_name", None)
        tags == Get(data, "tags", None)
        description == Get(data, "description", None)
        chain == Get(data, "chain", None)
    IN  [row EXCEPT
            !.updated_at = now,
            !.published = GetPublished(data),
            !.app_name = IF app_name /= None THEN app_name[1] ELSE @,
            !.tags = IF tags /= None THEN tags ELSE @,
            !.description = IF description /= None THEN description ELSE @,
            !.chain = IF chain /= None THEN chain ELSE @]

\* What modify_application answers when the query for the row finds nothing:
\* app_build is None and line 131 assigns to its attribute before line 134
\* tests it, so the request ends in an AttributeError (500), not in the 400.
ModifyNotFoundStatus == 500

\* POST /v1/app/modify
modify_application(u, data) ==
    LET given == Get(data, "id", None)
        new == given = None \/ given = Some(EmptyId)
        app_id == IF new THEN Len(apps) + 1 ELSE given[1]
        app_name == Get(data, "app_name", None)
        Answer(status) == [op |-> "app_modify", user |-> u, id |-> app_id,
                           status |-> status]
    IN  /\ IF new
           THEN IF app_name = None
                THEN /\ resp' = Answer(400)
                     /\ UNCHANGED apps
                ELSE /\ Room
                     /\ apps' = Append(apps,
                            DbAppBuild(app_name[1], u, Get(data, "tags", None),
                                       Get(data, "description", None),
                                       GetPublished(data), Get(data, "chain", None)))
                     /\ resp' = Answer(200)
           ELSE IF ~OwnLiveApp(u, app_id)
                THEN /\ resp' = Answer(ModifyNotFoundStatus)
                     /\ UNCHANGED apps
                ELSE /\ apps' = [apps EXCEPT ![app_id] = UpdatedApp(@, data)]
                     /\ resp' = Answer(200)
        /\ UNCHANGED <<files, now, waiting>>

\* DELETE /v1/app/delete/<app_id>
delete_application(u, app_id) ==
    LET Answer(status) == [op |-> "app_delete", user |-> u, id |-> app_id,
                           status |-> status]
    IN  /\ IF ~OwnLiveApp(u, app_id)
           THEN /\ resp' = Answer(400)
                /\ UNCHANGED apps
           ELSE /\ apps' = [apps EXCEPT ![app_id].deleted_at = Some(now)]
                /\ resp' = Answer(200)
        /\ UNCHANGED <<files, now, waiting>>

\* POST /v1/app/publish/<app_id>
publish_application(u, app_id) ==
    LET Answer(status) == [op |-> "app_publish", user |-> u, id |-> app_id,
                           status |-> status]
    IN  /\ IF ~OwnLiveApp(u, app_id)
           THEN /\ resp' = Answer(400)
                /\ UNCHANGED apps
           ELSE /\ apps' = [apps EXCEPT ![app_id].published = TRUE,
                                        ![app_id].updated_at = now]
                /\ resp' = Answer(200)
        /\ UNCHANGED <<files, now, waiting>>

\* POST /v1/app/auto_generate; upstream is what the generation service answers:
\* ok (status 200), parses (the joined deltas are one JSON document), data
generate_application(u, upstream) ==
    LET data == upstream.data
        app_name == Get(data, "app_name", None)
        Answer(status) == [op |-> "app_generate", user |-> u, id |-> Len(apps) + 1,
                           status |-> status]
    IN  /\ IF ~upstream.ok \/ ~upstream.parses
           THEN /\ resp' = Answer(500)
                /\ UNCHANGED apps
           ELSE IF app_name = None
           THEN /\ resp' = Answer(400)
                /\ UNCHANGED apps
           ELSE /\ Room
                /\ apps' = Append(apps,
                       DbAppBuild(app_name[1], u, Get(data, "tags", None),
                                  Get(data, "description", None),
                                  GetPublished(data), Get(data, "chain", None)))
                /\ resp' = Answer(200)
        /\ UNCHANGED <<files, now, waiting>>

\* the clock of datetime.utcnow() moves on
Tick ==
    /\ now < MaxTime
    /\ now' = now + 1
    /\ resp' = NoResponse
    /\ UNCHANGED <<apps, files, waiting>>

(* -------------------------------- files -------------------------------- *)

ALLOWED_EXTENSIONS == {<<"t", "x", "t">>, <<"t", "s", "v">>, <<"c", "s", "v">>}

\* 1024 * 1024 * 15 bytes
MaxUploadBytes == 1024 * 1024 * 15

\* the row cap of a Table
MaxTableRows == 3000

\* str.lower() on the letters the model's file names use
LowerChar(c) ==
    CASE c = "C" -> "c" [] c = "S" -> "s" [] c = "T" -> "t"
      [] c = "V" -> "v" [] c = "X" -> "x" [] OTHER -> c

Lower(s) == [i \in 1..Len(s) |-> LowerChar(s[i])]

\* filename.rsplit('.', 1)[1], for a filename that holds a '.'
AfterLastDot(s) ==
    LET i == CHOOSE k \in 1..Len(s) :
                 s[k] = "." /\ \A j \in (k + 1)..Len(s) : s[j] /= "."
    IN  SubSeq(s, i + 1, Len(s))

allowed_file(filename) ==
    /\ Contains(filename, ".")
    /\ Lower(AfterLastDot(filename)) \in ALLOWED_EXTENSIONS

\* variant of TooLarge: the cap itself refused
TooLargeAtCap(content) == content.len >= MaxUploadBytes

\* size > 1024 * 1024 * 15
TooLarge(content) == content.len > MaxUploadBytes

\* file_type == "Table" and row_count > 3000
TooManyRows(file_type, row_count) == file_type = "Table" /\ row_count > MaxTableRows

\* determine_file_type_and_content(file): <<type, content, row_count>>, for
\* bytes that decode and parse
determine_file_type_and_content(content) ==
    IF content.delimited
    THEN <<"Table", [rows |-> content.rows], content.rows>>
    ELSE <<"Plain Text", [text |-> content], 0>>

FileIds == 1..Len(files)

\* variant of FileVisible: the filter without its deleted_at condition
FileVisibleDeleted(u, file_id) ==
    /\ file_id \in FileIds
    /\ (files[file_id].uploaded_by = u \/ files[file_id].published)

\* filter(deleted_at IS NULL, (uploaded_by == u) | (published == True))
FileVisible(u, file_id) ==
    /\ file_id \in FileIds
    /\ files[file_id].deleted_at = None
    /\ (files[file_id].uploaded_by = u \/ files[file_id].published)

\* DbFile.query.filter(id == file_id, deleted_at IS NULL, uploaded_by == u).first()
OwnLiveFile(u, file_id) ==
    /\ file_id \in FileIds
    /\ files[file_id].deleted_at = None
    /\ files[file_id].uploaded_by = u

\* POST /v1/file/upload; file is None when the form has no 'file' part, else
\* <<[filename, content]>>
upload_file(u, file) ==
    LET Answer(status) == [op |-> "file_upload", user |-> u, id |-> Len(files) + 1,
                           status |-> status]
        filename == file[1].filename
        content == file[1].content
        det == determine_file_type_and_content(content)
    IN  /\ IF file = None
           THEN /\ resp' = Answer(400)
                /\ UNCHANGED files
           ELSE IF filename = <<>>
           THEN /\ resp' = Answer(400)
                /\ UNCHANGED files
           ELSE IF ~allowed_file(filename)
           THEN /\ resp' = Answer(400)
                /\ UNCHANGED files
           ELSE IF TooLarge(content)
           THEN /\ resp' = Answer(400)
                /\ UNCHANGED files
           ELSE IF ~content.valid
           THEN /\ resp' = Answer(500)
                /\ UNCHANGED files
           ELSE IF TooManyRows(det[1], det[3])
           THEN /\ resp' = Answer(400)
                /\ UNCHANGED files
           ELSE /\ Room
                /\ files' = Append(files,
                       [type |-> det[1], uploaded_by |-> u, uploaded_at |-> now,
                        size |-> content.len, content |-> det[2],
                        raw_content |-> content, published |-> FALSE,
                        deleted_at |-> None])
                /\ resp' = Answer(200)
        /\ UNCHANGED <<apps, now, waiting>>

\* the query of get_uploaded_files with its optional uploaded_by filter
FileQuery(u, uploaded_by) ==
    {f \in FileIds : /\ FileVisible(u, f)
                     /\ uploaded_by /= None => files[f].uploaded_by = uploaded_by[1]}

\* order_by(uploaded_at.desc())
FileOrderLeq(a, b) == files[a].uploaded_at >= files[b].uploaded_at

\* the ordered query of get_uploaded_files: every row order its ORDER BY allows
FileOrderings(u, uploaded_by) ==
    {q \in Sequencings(FileQuery(u, uploaded_by)) :
        \A i, j \in 1..Len(q) : i < j => FileOrderLeq(q[i], q[j])}

FileTotalPages(u, size, uploaded_by) ==
    Ceil(Cardinality(FileQuery(u, uploaded_by)), size)

\* GET /v1/file/list
get_uploaded_files(u, page, size, uploaded_by) ==
    /\ \E q \in FileOrderings(u, uploaded_by) :
           resp' = [op |-> "file_list", user |-> u, status |-> 200,
                    body |-> Window(q, page, size),
                    total_pages |-> FileTotalPages(u, size, uploaded_by)]
    /\ UNCHANGED <<apps, files, now, waiting>>

\* the status of GET /v1/file/load/<file_id>
LoadFileStatus(u, file_id) == IF FileVisible(u, file_id) THEN 200 ELSE 404

\* GET /v1/file/load/<file_id>; the body is the row found, without raw_content
load_file(u, file_id) ==
    /\ resp' = [op |-> "file_load", user |-> u, id |-> file_id,
                status |-> LoadFileStatus(u, file_id),
                body |-> IF FileVisible(u, file_id)
                         THEN Some([k \in DOMAIN files[file_id] \ {"raw_content"}
                                      |-> files[file_id][k]])
                         ELSE None]
    /\ UNCHANGED <<apps, files, now, waiting>>

\* variant of DownloadStatus: a published file served to every caller
DownloadStatusPublished(u, file_id) ==
    IF ~(file_id \in FileIds /\ files[file_id].deleted_at = None) THEN 404
    ELSE IF files[file_id].uploaded_by /= u /\ ~files[file_id].published THEN 403
    ELSE 200

\* the status of GET /v1/file/download/<file_id>
DownloadStatus(u, file_id) ==
    IF ~(file_id \in FileIds /\ files[file_id].deleted_at = None) THEN 404
    ELSE IF files[file_id].uploaded_by /= u THEN 403
    ELSE 200

\* GET /v1/file/download/<file_id>; the body is the attachment
download_file(u, file_id) ==
    /\ resp' = [op |-> "file_download", user |-> u, id |-> file_id,
                status |-> DownloadStatus(u, file_id),
                body |-> IF DownloadStatus(u, file_id) = 200
                         THEN Some(files[file_id].raw_content)
                         ELSE None]
    /\ UNCHANGED <<apps, files, now, waiting>>

\* variant of ChromaFailed: the downstream answer ignored
ChromaNeverFailed(file_type, chroma) == FALSE

\* the downstream deletion is due and did not succeed: chroma_resp.ok is false,
\* or requests.delete raised
ChromaFailed(file_type, chroma) == file_type = "Embedded Text" /\ chroma /= "ok"

\* DELETE /v1/file/delete/<file_id>, from the lookup of the row to the answer
\* or, for an Embedded Text file, to the request sent to
\* /v1/resource/delete_chroma/<file_id>: the handler then waits for that
\* request, holding the row it read, while other requests are served
delete_file(u, file_id) ==
    LET Answer(status) == [op |-> "file_delete", user |-> u, id |-> file_id,
                           status |-> status]
    IN  /\ IF ~(file_id \in FileIds) \/ files[file_id].deleted_at /= None
           THEN /\ resp' = Answer(400)
                /\ UNCHANGED <<files, waiting>>
           ELSE IF files[file_id].uploaded_by /= u
           THEN /\ resp' = Answer(403)
                /\ UNCHANGED <<files, waiting>>
           ELSE IF files[file_id].type = "Embedded Text"
           THEN /\ BagCardinality(waiting) < MaxInflight
                /\ waiting' = waiting (+) SetToBag({<<u, file_id>>})
                /\ resp' = NoResponse
                /\ UNCHANGED files
           ELSE /\ files' = [files EXCEPT ![file_id].deleted_at = Some(now)]
                /\ resp' = Answer(200)
                /\ UNCHANGED waiting
        /\ UNCHANGED <<apps, now>>

\* delete_file of an Embedded Text file from the return of requests.delete on:
\* chroma is what that request ended in, "ok", "not_ok" or "raises". The row
\* is not read again before deleted_at is written.
delete_file_resume(u, file_id, chroma) ==
    LET Answer(status) == [op |-> "file_delete", user |-> u, id |-> file_id,
                           status |-> status]
    IN  /\ BagIn(<<u, file_id>>, waiting)
        /\ waiting' = waiting (-) SetToBag({<<u, file_id>>})
        /\ IF ChromaFailed("Embedded Text", chroma)
           THEN /\ resp' = Answer(500)
                /\ UNCHANGED files
           ELSE /\ files' = [files EXCEPT ![file_id].deleted_at = Some(now)]
                /\ resp' = Answer(200)
        /\ UNCHANGED <<apps, now>>

\* POST /v1/file/publish/<file_id>
publish_file(u, file_id) ==
    LET Answer(status) == [op |-> "file_publish", user |-> u, id |-> file_id,
                           status |-> status]
    IN  /\ IF ~OwnLiveFile(u, file_id)
           THEN /\ resp' = Answer(400)
                /\ UNCHANGED files
           ELSE /\ files' = [files EXCEPT ![file_id].published = TRUE]
                /\ resp' = Answer(200)
        /\ UNCHANGED <<apps, now, waiting>>

\* The embedding service (outside this repository) indexes a live text file and
\* marks it Embedded Text.
Embed(file_id) ==
    /\ file_id \in FileIds
    /\ files[file_id].deleted_at = None
    /\ files[file_id].type = "Plain Text"
    /\ files' = [files EXCEPT ![file_id].type = "Embedded Text"]
    /\ resp' = NoResponse
    /\ UNCHANGED <<apps, now, waiting>>

(* ------------------------------- inputs ------------------------------- *)

Demo == <<"d", "e", "m", "o">>

Memo == <<"m", "e">>

Restrict(f, K) == [k \in K |-> f[k]]

RecordIds == 1..MaxRecords

\* JSON bodies of /v1/app/modify where only ownership and visibility matter
CoreBodies ==
    {Restrict(b, K) :
        b \in [id : {EmptyId} \cup RecordIds, app_name : {Demo}, published : BOOLEAN],
        K \in SUBSET {"id", "app_name", "published"}}

\* JSON bodies of /v1/app/modify that create an application, unpublished or
\* published, and that update one with or without the published field
PlainBodies ==
    {[app_name |-> Demo], [app_name |-> Demo, published |-> TRUE]}
    \cup {[id |-> a] : a \in RecordIds}
    \cup {[id |-> a, published |-> TRUE] : a \in RecordIds}

\* JSON bodies of /v1/app/modify that create an application: the name alone,
\* and every field
CreateBodies ==
    {[app_name |-> Demo],
     [app_name |-> Demo, tags |-> <<"t">>, description |-> <<"x">>,
      chain |-> <<"c">>, published |-> TRUE]}

UpdateKeys == {"app_name", "tags", "description", "chain", "published"}

\* JSON bodies of /v1/app/modify that update the first application, with values
\* no creation uses: no field, one field, all fields but one, all fields
UpdateBodies ==
    {Restrict(b, K \cup {"id"}) :
        b \in [id : {1}, app_name : {Memo}, tags : {<<"s">>},
               description : {<<"y">>}, chain : {<<"d">>}, published : BOOLEAN],
        K \in {{}, UpdateKeys} \cup {{k} : k \in UpdateKeys}
                 \cup {UpdateKeys \ {k} : k \in UpdateKeys}}

FullBodies == CreateBodies \cup UpdateBodies

Upstreams ==
    {[ok |-> FALSE, parses |-> TRUE, data |-> [app_name |-> Demo]],
     [ok |-> TRUE, parses |-> FALSE, data |-> [app_name |-> Demo]],
     [ok |-> TRUE, parses |-> TRUE, data |-> [tags |-> <<"t">>]],
     [ok |-> TRUE, parses |-> TRUE,
      data |-> [app_name |-> Memo, tags |-> <<"t">>, published |-> TRUE]]}

\* the generation service failing, and answering with a published application
PlainUpstreams ==
    {[ok |-> FALSE, parses |-> TRUE, data |-> [app_name |-> Demo]],
     [ok |-> TRUE, parses |-> TRUE, data |-> [app_name |-> Demo, published |-> TRUE]]}

AppFilters ==
    {NoFilter,
     [NoFilter EXCEPT !.app_name = Some(<<"e", "m">>)],
     [NoFilter EXCEPT !.created_by = Some(<<"_", "o">>)],
     [NoFilter EXCEPT !.tags = Some(<<"s", ",", "t">>)]}

Content(len, delimited, rows, valid) ==
    [len |-> len, delimited |-> delimited, rows |-> rows, valid |-> valid]

\* uploads at and just past the two caps, and one whose bytes do not decode
Contents ==
    {Content(MaxUploadBytes, FALSE, 0, TRUE),
     Content(MaxUploadBytes + 1, FALSE, 0, TRUE),
     Content(MaxUploadBytes, TRUE, MaxTableRows, TRUE),
     Content(MaxUploadBytes, TRUE, MaxTableRows + 1, TRUE),
     Content(MaxUploadBytes + 1, TRUE, MaxTableRows + 1, TRUE),
     Content(MaxUploadBytes, FALSE, 0, FALSE)}

GoodName == <<"a", ".", "t", "x", "t">>

Filenames ==
    {GoodName, <<"a", ".", "b", ".", "C", "S", "V">>,
     <<"a", ".", "e", "x", "e">>, <<"t", "x", "t">>, <<>>}

\* no file part; every name with bytes at the size cap and past it; every
\* content under an allowed name
Uploads ==
    {None}
    \cup {Some([filename |-> n, content |-> Content(MaxUploadBytes + k, FALSE, 0, TRUE)]) :
             n \in Filenames, k \in {0, 1}}
    \cup {Some([filename |-> GoodName, content |-> c]) : c \in Contents}

\* uploads where only ownership and visibility matter
CoreUploads ==
    {None, Some([filename |-> GoodName,
                 content |-> Content(MaxUploadBytes, FALSE, 0, TRUE)])}

ChromaOutcomes == {"ok", "not_ok", "raises"}

(* --------------------------- specifications --------------------------- *)

Init ==
    /\ apps = <<>>
    /\ files = <<>>
    /\ now = 0
    /\ resp = NoResponse
    /\ waiting = EmptyBag

\* the application API alone
AppNext ==
    \/ \E u \in Users, data \in CoreBodies : modify_application(u, data)
    \/ \E u \in Users, a \in RecordIds : delete_application(u, a)
    \/ \E u \in Users, a \in RecordIds : publish_application(u, a)
    \/ \E u \in Users, up \in Upstreams : generate_application(u, up)
    \/ \E u \in Users, a \in RecordIds : get_application(u, a)
    \/ \E u \in Users, p \in 1..MaxPage, s \in 1..MaxPage, flt \in AppFilters :
           get_app_list(u, p, s, flt)
    \/ Tick

SpecApp == Init /\ [][AppNext]_vars

\* the application API with request bodies that carry every field
ModifyNext ==
    \/ \E u \in Users, data \in FullBodies : modify_application(u, data)
    \/ Tick

SpecModify == Init /\ [][ModifyNext]_vars

\* uploads of every kind into a table of published and soft-deleted files
UploadNext ==
    \/ \E u \in Users, file \in Uploads : upload_file(u, file)
    \/ \E u \in Users, f \in RecordIds : delete_file(u, f)
    \/ \E u \in Users, f \in RecordIds : publish_file(u, f)
    \/ Tick

SpecUpload == Init /\ [][UploadNext]_vars

\* the file API alone
FileNext ==
    \/ \E u \in Users, file \in CoreUploads : upload_file(u, file)
    \/ \E u \in Users, f \in RecordIds : delete_file(u, f)
    \/ \E u \in Users, f \in RecordIds, c \in ChromaOutcomes :
           delete_file_resume(u, f, c)
    \/ \E u \in Users, f \in RecordIds : publish_file(u, f)
    \/ \E u \in Users, f \in RecordIds : load_file(u, f)
    \/ \E u \in Users, f \in RecordIds : download_file(u, f)
    \/ \E u \in Users, p \in 1..MaxPage, s \in 1..MaxPage,
          by \in {None} \cup {Some(v) : v \in Users} :
           get_uploaded_files(u, p, s, by)
    \/ \E f \in RecordIds : Embed(f)
    \/ Tick

SpecFile == Init /\ [][FileNext]_vars

\* both APIs over one database
Next ==
    \/ \E u \in Users, data \in PlainBodies : modify_application(u, data)
    \/ \E u \in Users, a \in RecordIds : delete_application(u, a)
    \/ \E u \in Users, a \in RecordIds : publish_application(u, a)
    \/ \E u \in Users, up \in PlainUpstreams : generate_application(u, up)
    \/ \E u \in Users, a \in RecordIds : get_application(u, a)
    \/ \E u \in Users, p \in 1..MaxPage, s \in 1..MaxPage :
           get_app_list(u, p, s, NoFilter)
    \/ \E u \in Users, file \in CoreUploads : upload_file(u, file)
    \/ \E u \in Users, f \in RecordIds : delete_file(u, f)
    \/ \E u \in Users, f \in RecordIds, c \in {"ok", "raises"} :
           delete_file_resume(u, f, c)
    \/ \E u \in Users, f \in RecordIds : publish_file(u, f)
    \/ \E u \in Users, f \in RecordIds : load_file(u, f)
    \/ \E u \in Users, p \in 1..MaxPage, s \in 1..MaxPage :
           get_uploaded_files(u, p, s, None)
    \/ \E f \in RecordIds : Embed(f)
    \/ Tick

Spec == Init /\ [][Next]_vars

(* ------------------------------- claims ------------------------------- *)

Live(row) == row.deleted_at = None

\* The pages 1..total_pages of one row order q, one after the other.
RECURSIVE ConcatPages(_, _, _)
ConcatPages(q, size, pages) ==
    IF pages = 0 THEN <<>>
    ELSE ConcatPages(q, size, pages - 1) \o Window(q, pages, size)

\* C7: download answers 200 with the stored raw bytes only to the uploader of
\* a live file; a live file of another user is refused with 403 whether or not
\* it is published; an unknown or soft-deleted id is refused with 404 for
\* every caller; and a download step changes no stored record.
C7_DownloadOwnerOnly ==
    /\ [](\A u \in Users, f \in RecordIds :
            /\ (f \in FileIds /\ Live(files[f]) /\ files[f].uploaded_by = u)
                   => DownloadStatus(u, f) = 200
            /\ (f \in FileIds /\ Live(files[f]) /\ files[f].uploaded_by /= u)
                   => DownloadStatus(u, f) = 403
            /\ (f \notin FileIds \/ ~Live(files[f])) => DownloadStatus(u, f) = 404)
    /\ [](resp.op = "file_download" =>
            /\ resp.status = DownloadStatus(resp.user, resp.id)
            /\ resp.body /= None <=> resp.status = 200
            /\ resp.status = 200 =>
                   /\ files[resp.id].uploaded_by = resp.user
                   /\ resp.body = Some(files[resp.id].raw_content))
    /\ [][resp'.op = "file_download" => (files' = files /\ apps' = apps)]_vars

\* a refused download of a live published file by a user who did not upload it
C7_Witness ==
    /\ resp.op = "file_download"
    /\ resp.status = 403
    /\ resp.id \in FileIds
    /\ Live(files[resp.id])
    /\ files[resp.id].published
    /\ files[resp.id].uploaded_by /= resp.user

UploaderFilters == {None} \cup {Some(v) : v \in Users}

\* C1: a live published application is answered by load (200) and is in the
\* list of every caller, a live unpublished one only for its owner; every row
\* a list or load response returns is live and owned by the caller or
\* published; and the same holds of file list and file load.
C1_OwnerOrPublishedVisible ==
    /\ \A u \in Users, a \in AppIds :
           Live(apps[a]) =>
               LET may == apps[a].published \/ apps[a].created_by = u
               IN  /\ LoadAppStatus(u, a) = 200 <=> may
                   /\ \A q \in AppOrderings(u, NoFilter), size \in 1..MaxPage :
                          a \in Range(ConcatPages(q, size,
                                          AppTotalPages(u, size, NoFilter))) <=> may
    /\ \A u \in Users, f \in FileIds :
           Live(files[f]) =>
               LET may == files[f].published \/ files[f].uploaded_by = u
               IN  /\ LoadFileStatus(u, f) = 200 <=> may
                   /\ \A q \in FileOrderings(u, None), size \in 1..MaxPage :
                          f \in Range(ConcatPages(q, size,
                                          FileTotalPages(u, size, None))) <=> may
    /\ resp.op = "app_list" =>
           \A a \in Range(resp.body) :
               a \in AppIds /\ (apps[a].published \/ apps[a].created_by = resp.user)
    /\ resp.op = "app_load" =>
           /\ resp.status \in {200, 400}
           /\ resp.status = 200 =>
                  /\ resp.id \in AppIds
                  /\ apps[resp.id].published \/ apps[resp.id].created_by = resp.user
                  /\ resp.body = Some(apps[resp.id])
    /\ resp.op = "file_list" =>
           \A f \in Range(resp.body) :
               f \in FileIds /\ (files[f].published \/ files[f].uploaded_by = resp.user)
    /\ resp.op = "file_load" =>
           /\ resp.status \in {200, 404}
           /\ resp.status = 200 =>
                  /\ resp.id \in FileIds
                  /\ files[resp.id].published \/ files[resp.id].uploaded_by = resp.user

\* a list answered to a user who sees another user's published application and
\* not that user's unpublished one
C1_Witness ==
    /\ resp.op = "app_list"
    /\ \E a \in Range(resp.body) : apps[a].created_by /= resp.user /\ apps[a].published
    /\ \E b \in AppIds :
           /\ Live(apps[b])
           /\ ~apps[b].published
           /\ apps[b].created_by /= resp.user
           /\ b \notin Range(resp.body)
    /\ resp.total_pages = 1

\* C2: a soft-deleted application or file is in no list, under any filter, and
\* is not answered by load, for any caller, its owner included, published or
\* not.
C2_DeletedNeverReturned ==
    /\ \A u \in Users, a \in AppIds :
           ~Live(apps[a]) =>
               /\ LoadAppStatus(u, a) /= 200
               /\ \A flt \in AppFilters :
                      \A q \in AppOrderings(u, flt) : a \notin Range(q)
    /\ \A u \in Users, f \in FileIds :
           ~Live(files[f]) =>
               /\ LoadFileStatus(u, f) /= 200
               /\ \A by \in UploaderFilters :
                      \A q \in FileOrderings(u, by) : f \notin Range(q)
    /\ resp.op = "app_list" => \A a \in Range(resp.body) : Live(apps[a])
    /\ resp.op = "file_list" => \A f \in Range(resp.body) : Live(files[f])
    /\ (resp.op = "app_load" /\ resp.id \in AppIds /\ ~Live(apps[resp.id]))
           => (resp.status = 400 /\ resp.body = None)
    /\ (resp.op = "file_load" /\ resp.id \in FileIds /\ ~Live(files[resp.id]))
           => (resp.status = 404 /\ resp.body = None)

\* the uploader is refused the load of their own published, soft-deleted file
C2_Witness ==
    /\ resp.op = "file_load"
    /\ resp.status = 404
    /\ resp.id \in FileIds
    /\ ~Live(files[resp.id])
    /\ files[resp.id].published
    /\ files[resp.id].uploaded_by = resp.user

\* C10 (as claimed): a row whose deleted_at is set is never changed again by
\* any step, and a delete or a publish of it, by its owner or anyone, is
\* refused with 400.
C10_SoftDeleteTerminal ==
    [][/\ \A a \in AppIds :
              ~Live(apps[a]) => (a \in 1..Len(apps') /\ apps'[a] = apps[a])
       /\ \A f \in FileIds :
              ~Live(files[f]) => (f \in 1..Len(files') /\ files'[f] = files[f])
       /\ (resp'.op \in {"app_delete", "app_publish"}
              /\ resp'.id \in AppIds /\ ~Live(apps[resp'.id]))
           => resp'.status = 400
       /\ (resp'.op \in {"file_delete", "file_publish"}
              /\ resp'.id \in FileIds /\ ~Live(files[resp'.id]))
           => resp'.status = 400]_vars

\* C3 (as claimed): a modify request with a non-empty id that matches no live
\* application of the caller, or with no id and no app_name, is answered with
\* 400 and changes no stored record.
C3_ModifyRefusedWith400 ==
    [][resp'.op = "app_modify" =>
       \A data \in CoreBodies :
         LET given == Get(data, "id", None)
             new == given = None \/ given = Some(EmptyId)
         IN  (/\ \/ ~new /\ ~OwnLiveApp(resp'.user, given[1])
                 \/ new /\ "app_name" \notin DOMAIN data
              /\ modify_application(resp'.user, data))
             => (resp'.status = 400 /\ apps' = apps)]_vars

\* C4: a modify request with the id of the caller's own live application sets
\* app_name, tags, description and chain to the request's value where the
\* request has the field and leaves them otherwise, sets updated_at to the
\* time of the request, sets published to the request's value, or to false
\* when the request has none, and leaves created_by, deleted_at, the row's id
\* and every other row as they were.
C4_ModifyFrame ==
    [][resp'.op = "app_modify" =>
       \A data \in FullBodies :
         (/\ "id" \in DOMAIN data /\ data.id /= EmptyId
          /\ OwnLiveApp(resp'.user, data.id)
          /\ modify_application(resp'.user, data))
         => LET old == apps[data.id]
                new == apps'[data.id]
            IN  /\ resp'.status = 200
                /\ Len(apps') = Len(apps)
                /\ \A b \in AppIds \ {data.id} : apps'[b] = apps[b]
                /\ new.app_name = IF "app_name" \in DOMAIN data
                                  THEN data.app_name ELSE old.app_name
                /\ \A k \in {"tags", "description", "chain"} :
                       new[k] = IF k \in DOMAIN data THEN Some(data[k]) ELSE old[k]
                /\ new.updated_at = now
                /\ new.published = ("published" \in DOMAIN data /\ data.published)
                /\ new.created_by = old.created_by
                /\ new.deleted_at = old.deleted_at]_vars

\* an application created published with tags, later modified by a request
\* that carried a description and neither tags nor published
C4_Witness ==
    /\ resp.op = "app_modify"
    /\ resp.status = 200
    /\ resp.id = 1
    /\ apps[1].tags = Some(<<"t">>)
    /\ apps[1].description = Some(<<"y">>)
    /\ apps[1].app_name = Demo
    /\ ~apps[1].published
    /\ apps[1].updated_at = MaxTime

\* C5: the owner's delete of an Embedded Text file whose downstream index
\* deletion is not OK or raises is answered with 500 and writes no file, so a
\* file that was live stays live and visible; and a live Embedded Text file
\* becomes soft-deleted only in the step of a delete of its uploader whose
\* downstream call succeeded.
C5_EmbeddedDeleteNeedsDownstream ==
    [][/\ resp'.op = "file_delete" =>
              \A c \in {"not_ok", "raises"} :
                  (/\ BagIn(<<resp'.user, resp'.id>>, waiting)
                   /\ delete_file_resume(resp'.user, resp'.id, c))
                  => /\ resp'.status = 500
                     /\ files' = files
                     /\ files[resp'.id].type = "Embedded Text"
                     /\ files[resp'.id].uploaded_by = resp'.user
                     /\ Live(files[resp'.id]) =>
                            (Live(files'[resp'.id]) /\ FileVisible(resp'.user, resp'.id))
       /\ \A f \in FileIds :
              (files[f].type = "Embedded Text" /\ Live(files[f]) /\ ~Live(files'[f]))
              => /\ resp'.op = "file_delete" /\ resp'.status = 200 /\ resp'.id = f
                 /\ delete_file_resume(files[f].uploaded_by, f, "ok")]_vars

\* the uploader's delete of a live Embedded Text file, answered with 500
C5_Witness ==
    /\ resp.op = "file_delete"
    /\ resp.status = 500
    /\ resp.id \in FileIds
    /\ files[resp.id].type = "Embedded Text"
    /\ files[resp.id].uploaded_by = resp.user
    /\ Live(files[resp.id])
    /\ FileVisible(resp.user, resp.id)

\* C6: an upload of more than 15 MiB, or of bytes that parse as a Table of more
\* than 3000 rows, is answered with 400 and stores nothing; an upload of
\* exactly 15 MiB under an allowed name, whose bytes parse and hold at most
\* 3000 rows when they are a Table, is answered with 200 and appends exactly
\* one record.
C6_UploadCaps ==
    [][resp'.op = "file_upload" =>
       \A file \in Uploads \ {None} :
         LET u == resp'.user
             n == file[1].filename
             c == file[1].content
         IN
         upload_file(u, file)
         => /\ (c.len > 15 * 1024 * 1024 \/ (c.valid /\ c.delimited /\ c.rows > 3000))
                => (resp'.status = 400 /\ files' = files)
            /\ (/\ c.len = 15 * 1024 * 1024
                /\ c.valid
                /\ c.delimited => c.rows <= 3000
                /\ n /= <<>>
                /\ allowed_file(n))
                => /\ resp'.status = 200
                   /\ Len(files') = Len(files) + 1
                   /\ SubSeq(files', 1, Len(files)) = files
                   /\ files'[Len(files')].size = c.len
                   /\ files'[Len(files')].uploaded_by = u
                   /\ files'[Len(files')].raw_content = c]_vars

\* an accepted Table of exactly 15 MiB and exactly 3000 rows
C6_Witness ==
    /\ resp.op = "file_upload"
    /\ resp.status = 200
    /\ files /= <<>>
    /\ files[Len(files)].type = "Table"
    /\ files[Len(files)].size = 15 * 1024 * 1024
    /\ files[Len(files)].content.rows = 3000

\* C8: a delete or a publish of an application by a user who does not own it
\* is answered with 400 and changes no application, published or not; no step
\* changes the created_by of an application; and a new application's
\* created_by is the caller of the request that created it.
C8_OwnerOnlyMutation ==
    [][/\ (resp'.op \in {"app_delete", "app_publish"}
              /\ resp'.id \in AppIds /\ apps[resp'.id].created_by /= resp'.user)
           => (resp'.status = 400 /\ apps' = apps)
       /\ \A a \in AppIds :
              a \in 1..Len(apps') /\ apps'[a].created_by = apps[a].created_by
       /\ Len(apps') /= Len(apps)
           => /\ Len(apps') = Len(apps) + 1
              /\ resp'.op \in {"app_modify", "app_generate"}
              /\ apps'[Len(apps')].created_by = resp'.user]_vars

\* a delete of a live published application by another user, refused
C8_Witness ==
    /\ resp.op = "app_delete"
    /\ resp.status = 400
    /\ resp.id \in AppIds
    /\ Live(apps[resp.id])
    /\ apps[resp.id].published
    /\ apps[resp.id].created_by /= resp.user

\* The pages 1..pages of a list, each cut from the row order its own request
\* got: qs[p] is the order the query of the request for page p returned.
RECURSIVE ConcatAnswers(_, _, _)
ConcatAnswers(qs, size, pages) ==
    IF pages = 0 THEN <<>>
    ELSE ConcatAnswers(qs, size, pages - 1) \o Window(qs[pages], pages, size)

\* the applications a list request of u with filter flt is to return
Matching(u, flt) ==
    {a \in AppIds : /\ Live(apps[a])
                    /\ apps[a].created_by = u \/ apps[a].published
                    /\ AppMatches(flt, a)}

\* C9 (as claimed): for every caller, page size and filter, the pages
\* 1..total_pages, each as a request for it may be answered, one after the
\* other, hold the caller's own applications before all others, each group in
\* non-increasing updated_at order, and every live application that is the
\* caller's or published and passes the filter exactly once and nothing else;
\* total_pages is the least number of pages of that size that hold them.
C9_ListOrderAndPages ==
    \A u \in Users, size \in 1..MaxPage, flt \in AppFilters :
        LET M == Matching(u, flt)
            tp == AppTotalPages(u, size, flt)
        IN  /\ tp * size >= Cardinality(M)
            /\ tp >= 0
            /\ tp > 0 => (tp - 1) * size < Cardinality(M)
            /\ \A qs \in [1..tp -> AppOrderings(u, flt)] :
                   LET all == ConcatAnswers(qs, size, tp)
                   IN  /\ \A a \in M :
                              Cardinality({i \in 1..Len(all) : all[i] = a}) = 1
                       /\ Range(all) \subseteq M
                       /\ \A i, j \in 1..Len(all) :
                              i < j =>
                                  /\ apps[all[j]].created_by = u
                                         => apps[all[i]].created_by = u
                                  /\ (apps[all[i]].created_by = u
                                         <=> apps[all[j]].created_by = u)
                                         => apps[all[i]].updated_at
                                                >= apps[all[j]].updated_at

\* What of C9 the separate queries of the page requests do keep: total_pages,
\* the number of rows over all pages, own rows first, non-increasing
\* updated_at in each group, no row twice in one page, and exactly once every
\* application that no other matching one ties with on owner and updated_at.
ListPagesOrdered ==
    \A u \in Users, size \in 1..MaxPage, flt \in AppFilters :
        LET M == Matching(u, flt)
            tp == AppTotalPages(u, size, flt)
            Tied(a, b) == /\ (apps[a].created_by = u <=> apps[b].created_by = u)
                          /\ apps[a].updated_at = apps[b].updated_at
        IN  /\ tp * size >= Cardinality(M)
            /\ tp > 0 => (tp - 1) * size < Cardinality(M)
            /\ \A qs \in [1..tp -> AppOrderings(u, flt)] :
                   LET all == ConcatAnswers(qs, size, tp)
                   IN  /\ Len(all) = Cardinality(M)
                       /\ Range(all) \subseteq M
                       /\ \A a \in M :
                              (\A b \in M \ {a} : ~Tied(a, b))
                              => Cardinality({i \in 1..Len(all) : all[i] = a}) = 1
                       /\ \A p \in 1..tp :
                              LET w == Window(qs[p], p, size)
                              IN  \A i, j \in 1..Len(w) : i < j => w[i] /= w[j]
                       /\ \A i, j \in 1..Len(all) :
                              i < j =>
                                  /\ apps[all[j]].created_by = u
                                         => apps[all[i]].created_by = u
                                  /\ (apps[all[i]].created_by = u
                                         <=> apps[all[j]].created_by = u)
                                         => apps[all[i]].updated_at
                                                >= apps[all[j]].updated_at

====
